---------------------------- MODULE Spec2Model ----------------------------
(***************************************************************************)
(* Model of the collection attribute types of types/basetypes:             *)
(* ListType, MapType and SetType (ValueFromTerraform, Equal,               *)
(* ApplyTerraform5AttributePathStep, Validate).                            *)
(*                                                                         *)
(* The methods are pure functions of their receiver and arguments.  Each   *)
(* behaviour is one call: Init draws the receiver and the arguments, the   *)
(* action of the called method computes the result the code returns.       *)
(***************************************************************************)
EXTENDS Integers, Sequences, FiniteSets, TLC

VARIABLES call, ret, pc

vars == <<call, ret, pc>>

-----------------------------------------------------------------------------
(* Bounds of the model *)

\* longest wire list / set of primitive children
MaxLen == 3
\* number of distinct keys of a wire map
NumKeys == 2
\* nesting depth of the element types compared by Equal
MaxDepth == 1
\* largest index of an integer path step
MaxIndex == 2

-----------------------------------------------------------------------------
(* Types.  A type is the sequence of its constructors, outermost first:    *)
(* <<"List", "String">> is a list of strings; <<>> is a missing (nil)      *)
(* type.  The same encoding serves attr.Type and tftypes.Type; "Custom"    *)
(* is an attr.Type only: a provider-defined string type that implements    *)
(* xattr.TypeWithValidate.                                                 *)

Shapes == {"List", "Map", "Set"}

Missing == <<>>

\* payloads of known primitive wire values
Atoms == {"a", "b", "c"}
\* the payload the Custom element type's Validate reports
InvalidAtom == "b"
\* the payload the Custom element type's ValueFromTerraform fails on
UnconvertibleAtom == "c"

\* attr.Type.TerraformType of an element type
RECURSIVE ElemTerraformType(_)
ElemTerraformType(t) ==
    IF t = Missing THEN Missing
    ELSE IF Head(t) \in Shapes THEN <<Head(t)>> \o ElemTerraformType(Tail(t))
    ELSE IF Head(t) = "Custom" THEN <<"String">>
    ELSE t

\* ListType.TerraformType: tftypes.List{ElementType: l.ElemType.TerraformType(ctx)}
ListTerraformType(elemType) == <<"List">> \o ElemTerraformType(elemType)

\* MapType.TerraformType
MapTerraformType(elemType) == <<"Map">> \o ElemTerraformType(elemType)

\* SetType.TerraformType
SetTerraformType(elemType) == <<"Set">> \o ElemTerraformType(elemType)

-----------------------------------------------------------------------------
(* Wire values (tftypes.Value): [type, k, val].  k is "unknown", "null" or *)
(* "val"; val is the payload of a known non-null value: an atom for a      *)
(* primitive, the sequence of children for a list or a set, the function   *)
(* from keys to children for a map, and <<>> otherwise.                    *)

WireUnknown(t) == [type |-> t, k |-> "unknown", val |-> <<>>]
WireNull(t) == [type |-> t, k |-> "null", val |-> <<>>]
WireVal(t, v) == [type |-> t, k |-> "val", val |-> v]

\* the zero tftypes.Value: no type, no value
WireNoType == WireNull(Missing)

\* tftypes.Value.IsKnown
IsKnown(v) == v.k # "unknown"

\* tftypes.Value.IsNull
IsNull(v) == v.k = "null"

\* tftypes.Type.Is: same kind, whatever the element type
TypeIs(t, kind) == t # Missing /\ Head(t) = kind

\* tftypes.Value.IsFullyKnown: known, and every nested child fully known
RECURSIVE IsFullyKnown(_)
IsFullyKnown(v) ==
    IF ~IsKnown(v) THEN FALSE
    ELSE IF IsNull(v) THEN TRUE
    ELSE IF TypeIs(v.type, "List") \/ TypeIs(v.type, "Set")
         THEN \A i \in 1..Len(v.val) : IsFullyKnown(v.val[i])
    ELSE IF TypeIs(v.type, "Map")
         THEN \A key \in DOMAIN v.val : IsFullyKnown(v.val[key])
    ELSE TRUE

\* tftypes.Value.Equal: equal types and an empty Diff
RECURSIVE WireEqual(_, _)
WireEqual(v, w) ==
    IF v.type # w.type THEN FALSE
    ELSE IF ~IsKnown(v) \/ ~IsKnown(w) THEN ~IsKnown(v) /\ ~IsKnown(w)
    ELSE IF IsNull(v) \/ IsNull(w) THEN IsNull(v) /\ IsNull(w)
    ELSE IF TypeIs(v.type, "List")
         THEN /\ Len(v.val) = Len(w.val)
              /\ \A i \in 1..Len(v.val) : WireEqual(v.val[i], w.val[i])
    ELSE IF TypeIs(v.type, "Set")
         THEN /\ \A i \in 1..Len(v.val) : \E j \in 1..Len(w.val) : WireEqual(v.val[i], w.val[j])
              /\ \A j \in 1..Len(w.val) : \E i \in 1..Len(v.val) : WireEqual(v.val[i], w.val[j])
    ELSE IF TypeIs(v.type, "Map")
         THEN /\ DOMAIN v.val = DOMAIN w.val
              /\ \A key \in DOMAIN v.val : WireEqual(v.val[key], w.val[key])
    ELSE v.val = w.val

-----------------------------------------------------------------------------
(* Framework values (attr.Value): [t, state, v, elems].  state is "Known", *)
(* "Null" or "Unknown"; v is the payload of a known primitive; elems holds *)
(* the members of a known collection: a sequence for a list or a set, a    *)
(* function from keys for a map.                                           *)

\* the nil attr.Value of a failed conversion
NilValue == [t |-> Missing, state |-> "nil", v |-> "", elems |-> <<>>]

\* the nil error of a successful call
NilError == "nil"

AttrUnknown(t) == [t |-> t, state |-> "Unknown", v |-> "", elems |-> <<>>]
AttrNull(t) == [t |-> t, state |-> "Null", v |-> "", elems |-> <<>>]
AttrPrimitive(t, a) == [t |-> t, state |-> "Known", v |-> a, elems |-> <<>>]

\* NewListUnknown / NewListNull / NewListValueMust
NewListUnknown(elemType) == AttrUnknown(<<"List">> \o elemType)
NewListNull(elemType) == AttrNull(<<"List">> \o elemType)
NewListValueMust(elemType, elems) ==
    [t |-> <<"List">> \o elemType, state |-> "Known", v |-> "", elems |-> elems]

\* NewMapUnknown / NewMapNull / NewMapValueMust
NewMapUnknown(elemType) == AttrUnknown(<<"Map">> \o elemType)
NewMapNull(elemType) == AttrNull(<<"Map">> \o elemType)
NewMapValueMust(elemType, elems) ==
    [t |-> <<"Map">> \o elemType, state |-> "Known", v |-> "", elems |-> elems]

\* NewSetUnknown / NewSetNull / NewSetValueMust (keeps every member given)
NewSetUnknown(elemType) == AttrUnknown(<<"Set">> \o elemType)
NewSetNull(elemType) == AttrNull(<<"Set">> \o elemType)
NewSetValueMust(elemType, elems) ==
    [t |-> <<"Set">> \o elemType, state |-> "Known", v |-> "", elems |-> elems]

\* the (attr.Value, error) pair a conversion returns
Converted(value) == [value |-> value, err |-> NilError]
Failed(err) == [value |-> NilValue, err |-> err]

\* all orders in which the keys of a set can be visited
Perms(S) ==
    {s \in [1..Cardinality(S) -> S] : \A i, j \in 1..Cardinality(S) : i # j => s[i] # s[j]}

\* the orders in which Go may range over the decoded map of a wire value
KeyOrders(v) ==
    IF TypeIs(v.type, "Map") /\ v.k = "val" THEN Perms(DOMAIN v.val) ELSE {<<>>}

\* the empty map[string]attr.Value
EmptyElems == [key \in {} |-> NilValue]

RECURSIVE ElemValueFromTerraform(_, _)
RECURSIVE ListConvertLoop(_, _, _, _)
RECURSIVE MapConvertLoop(_, _, _, _, _)
RECURSIVE SetConvertLoop(_, _, _, _)

\* the list loop building the result back to front
RECURSIVE ListConvertLoopReversed(_, _, _, _)
ListConvertLoopReversed(elemType, val, i, elems) ==
    IF i > Len(val) THEN [elems |-> elems, err |-> NilError]
    ELSE LET av == ElemValueFromTerraform(elemType, val[i])
         IN  IF av.err # NilError THEN [elems |-> <<>>, err |-> av.err]
             ELSE ListConvertLoopReversed(elemType, val, i + 1, <<av.value>> \o elems)

\* list_type.go: for _, elem := range val { ... }
ListConvertLoop(elemType, val, i, elems) ==
    IF i > Len(val) THEN [elems |-> elems, err |-> NilError]
    ELSE LET av == ElemValueFromTerraform(elemType, val[i])
         IN  IF av.err # NilError THEN [elems |-> <<>>, err |-> av.err]
             ELSE ListConvertLoop(elemType, val, i + 1, Append(elems, av.value))

\* ListType.ValueFromTerraform with the whole-value test widened from
\* IsKnown to IsFullyKnown
ListValueFromTerraformFullyKnown(elemType, in) ==
    IF in.type = Missing THEN Converted(NewListNull(elemType))
    ELSE IF in.type # ListTerraformType(elemType) THEN Failed("type mismatch")
    ELSE IF ~IsFullyKnown(in) THEN Converted(NewListUnknown(elemType))
    ELSE IF IsNull(in) THEN Converted(NewListNull(elemType))
    ELSE LET r == ListConvertLoop(elemType, in.val, 1, <<>>)
         IN  IF r.err # NilError THEN Failed(r.err)
             ELSE Converted(NewListValueMust(elemType, r.elems))

\* ListType.ValueFromTerraform
ListValueFromTerraform(elemType, in) ==
    IF in.type = Missing THEN Converted(NewListNull(elemType))
    ELSE IF in.type # ListTerraformType(elemType) THEN Failed("type mismatch")
    ELSE IF ~IsKnown(in) THEN Converted(NewListUnknown(elemType))
    ELSE IF IsNull(in) THEN Converted(NewListNull(elemType))
    ELSE LET r == ListConvertLoop(elemType, in.val, 1, <<>>)
         IN  IF r.err # NilError THEN Failed(r.err)
             ELSE Converted(NewListValueMust(elemType, r.elems))

\* map_type.go: for key, elem := range val { ... }, keys visited in `order`
MapConvertLoop(elemType, val, order, i, elems) ==
    IF i > Len(order) THEN [elems |-> elems, err |-> NilError]
    ELSE LET key == order[i]
             av == ElemValueFromTerraform(elemType, val[key])
         IN  IF av.err # NilError THEN [elems |-> EmptyElems, err |-> av.err]
             ELSE MapConvertLoop(elemType, val, order, i + 1,
                      [x \in (DOMAIN elems) \cup {key} |->
                          IF x = key THEN av.value ELSE elems[x]])

\* MapType.ValueFromTerraform returning the members converted so far along
\* with an element's error
MapValueFromTerraformPartial(elemType, in, order) ==
    IF in.type = Missing THEN Converted(NewMapNull(elemType))
    ELSE IF ~TypeIs(in.type, "Map") THEN Failed("not a map")
    ELSE IF in.type # <<"Map">> \o ElemTerraformType(elemType) THEN Failed("type mismatch")
    ELSE IF ~IsKnown(in) THEN Converted(NewMapUnknown(elemType))
    ELSE IF IsNull(in) THEN Converted(NewMapNull(elemType))
    ELSE LET r == MapConvertLoop(elemType, in.val, order, 1, EmptyElems)
         IN  [value |-> NewMapValueMust(elemType, r.elems), err |-> r.err]

\* MapType.ValueFromTerraform
MapValueFromTerraform(elemType, in, order) ==
    IF in.type = Missing THEN Converted(NewMapNull(elemType))
    ELSE IF ~TypeIs(in.type, "Map") THEN Failed("not a map")
    ELSE IF in.type # <<"Map">> \o ElemTerraformType(elemType) THEN Failed("type mismatch")
    ELSE IF ~IsKnown(in) THEN Converted(NewMapUnknown(elemType))
    ELSE IF IsNull(in) THEN Converted(NewMapNull(elemType))
    ELSE LET r == MapConvertLoop(elemType, in.val, order, 1, EmptyElems)
         IN  IF r.err # NilError THEN Failed(r.err)
             ELSE Converted(NewMapValueMust(elemType, r.elems))

\* set_type.go: for _, elem := range val { ... }
SetConvertLoop(elemType, val, i, elems) ==
    IF i > Len(val) THEN [elems |-> elems, err |-> NilError]
    ELSE LET av == ElemValueFromTerraform(elemType, val[i])
         IN  IF av.err # NilError THEN [elems |-> <<>>, err |-> av.err]
             ELSE SetConvertLoop(elemType, val, i + 1, Append(elems, av.value))

\* SetType.ValueFromTerraform
SetValueFromTerraform(elemType, in) ==
    IF in.type = Missing THEN Converted(NewSetNull(elemType))
    ELSE IF in.type # SetTerraformType(elemType) THEN Failed("type mismatch")
    ELSE IF ~IsKnown(in) THEN Converted(NewSetUnknown(elemType))
    ELSE IF IsNull(in) THEN Converted(NewSetNull(elemType))
    ELSE LET r == SetConvertLoop(elemType, in.val, 1, <<>>)
         IN  IF r.err # NilError THEN Failed(r.err)
             ELSE Converted(NewSetValueMust(elemType, r.elems))

\* one order in which a nested map's keys are visited
SomeOrder(v) == CHOOSE order \in KeyOrders(v) : TRUE

\* attr.Type.ValueFromTerraform of the element type
ElemValueFromTerraform(t, v) ==
    IF Head(t) = "List" THEN ListValueFromTerraform(Tail(t), v)
    ELSE IF Head(t) = "Map" THEN MapValueFromTerraform(Tail(t), v, SomeOrder(v))
    ELSE IF Head(t) = "Set" THEN SetValueFromTerraform(Tail(t), v)
    ELSE IF ~IsKnown(v) THEN Converted(AttrUnknown(t))
    ELSE IF IsNull(v) THEN Converted(AttrNull(t))
    ELSE IF v.type # ElemTerraformType(t) THEN Failed("type mismatch")
    ELSE IF Head(t) = "Custom" /\ v.val = UnconvertibleAtom THEN Failed("unconvertible")
    ELSE Converted(AttrPrimitive(t, v.val))

-----------------------------------------------------------------------------
(* Attribute paths and diagnostics.  A path is the sequence of its steps,  *)
(* each step <<kind, key>>; a diagnostic is [summary, path, detail] where  *)
(* detail is the wire value the message names (WireNoType when none).      *)

AtName(name) == <<"AttributeName", name>>
AtListIndex(index) == <<"ListIndex", index>>
AtMapKey(key) == <<"MapKey", key>>
AtSetValue(value) == <<"SetValue", value>>

Diag(summary, path, detail) == [summary |-> summary, path |-> path, detail |-> detail]

\* what a Validate call did: the diagnostics it returns and, in order, the
\* element validations it invoked (child position or key, path passed)
NoDiags == [diags |-> <<>>, calls |-> <<>>]
OnlyDiag(d) == [diags |-> <<d>>, calls |-> <<>>]

\* st.ElemType.(xattr.TypeWithValidate): the collection types and Custom
\* have a Validate method, the plain primitives and a missing type do not
IsValidatable(t) == t # Missing /\ Head(t) \in Shapes \cup {"Custom"}

RECURSIVE ElemValidate(_, _, _)
RECURSIVE ListValidateLoop(_, _, _, _, _)
RECURSIVE MapValidateLoop(_, _, _, _, _, _)
RECURSIVE SetValidateLoop(_, _, _, _, _)

\* list_type.go: for index, elem := range elems { ... }
ListValidateLoop(elemType, elems, path, i, acc) ==
    IF i > Len(elems) THEN acc
    ELSE IF ~IsFullyKnown(elems[i]) THEN ListValidateLoop(elemType, elems, path, i + 1, acc)
    ELSE LET at == Append(path, AtListIndex(i - 1))
         IN  ListValidateLoop(elemType, elems, path, i + 1,
                 [diags |-> acc.diags \o ElemValidate(elemType, elems[i], at),
                  calls |-> Append(acc.calls, [child |-> i, path |-> at])])

\* ListType.Validate without the test for a value that has no type
ListValidateNoTypeGuard(elemType, in, path) ==
    IF ~TypeIs(in.type, "List")
         THEN OnlyDiag(Diag("List Type Validation Error", path, WireNoType))
    ELSE IF ~IsKnown(in) \/ IsNull(in) THEN NoDiags
    ELSE IF ~IsValidatable(elemType) THEN NoDiags
    ELSE ListValidateLoop(elemType, in.val, path, 1, NoDiags)

\* ListType.Validate
ListValidate(elemType, in, path) ==
    IF in.type = Missing THEN NoDiags
    ELSE IF ~TypeIs(in.type, "List")
         THEN OnlyDiag(Diag("List Type Validation Error", path, WireNoType))
    ELSE IF ~IsKnown(in) \/ IsNull(in) THEN NoDiags
    ELSE IF ~IsValidatable(elemType) THEN NoDiags
    ELSE ListValidateLoop(elemType, in.val, path, 1, NoDiags)

\* map_type.go: for index, elem := range elems { ... }, keys visited in `order`
MapValidateLoop(elemType, elems, path, order, i, acc) ==
    IF i > Len(order) THEN acc
    ELSE IF ~IsFullyKnown(elems[order[i]])
         THEN MapValidateLoop(elemType, elems, path, order, i + 1, acc)
    ELSE LET at == Append(path, AtMapKey(order[i]))
         IN  MapValidateLoop(elemType, elems, path, order, i + 1,
                 [diags |-> acc.diags \o ElemValidate(elemType, elems[order[i]], at),
                  calls |-> Append(acc.calls, [child |-> order[i], path |-> at])])

\* MapType.Validate
MapValidate(elemType, in, path, order) ==
    IF in.type = Missing THEN NoDiags
    ELSE IF ~TypeIs(in.type, "Map")
         THEN OnlyDiag(Diag("Map Type Validation Error", path, WireNoType))
    ELSE IF ~IsKnown(in) \/ IsNull(in) THEN NoDiags
    ELSE IF ~IsValidatable(elemType) THEN NoDiags
    ELSE MapValidateLoop(elemType, in.val, path, order, 1, NoDiags)

\* set_type.go: for indexInner := indexOuter + 1; indexInner < len(elems); ...
\* one "Duplicate Set Element" error, at the set's path, per later child
\* equal to the outer one
DuplicateDiags(elems, path, indexOuter) ==
    LET later == [n \in 1..(Len(elems) - indexOuter) |-> indexOuter + n]
        equal == SelectSeq(later, LAMBDA indexInner : WireEqual(elems[indexInner], elems[indexOuter]))
    IN  [n \in 1..Len(equal) |-> Diag("Duplicate Set Element", path, elems[equal[n]])]

\* set_type.go: for indexOuter, elemOuter := range elems { ... }
SetValidateLoop(elemType, elems, path, i, acc) ==
    IF i > Len(elems) THEN acc
    ELSE IF ~IsFullyKnown(elems[i]) THEN SetValidateLoop(elemType, elems, path, i + 1, acc)
    ELSE IF IsValidatable(elemType)
         THEN LET elemValue == ElemValueFromTerraform(elemType, elems[i])
                  at == Append(path, AtSetValue(elemValue.value))
              IN  IF elemValue.err # NilError
                  THEN [diags |-> Append(acc.diags,
                                      Diag("Set Type Validation Error", path, WireNoType)),
                        calls |-> acc.calls]
                  ELSE SetValidateLoop(elemType, elems, path, i + 1,
                           [diags |-> acc.diags \o ElemValidate(elemType, elems[i], at)
                                          \o DuplicateDiags(elems, path, i),
                            calls |-> Append(acc.calls, [child |-> i, path |-> at])])
    ELSE SetValidateLoop(elemType, elems, path, i + 1,
             [diags |-> acc.diags \o DuplicateDiags(elems, path, i), calls |-> acc.calls])

\* SetType.Validate
SetValidate(elemType, in, path) ==
    IF in.type = Missing THEN NoDiags
    ELSE IF ~TypeIs(in.type, "Set")
         THEN OnlyDiag(Diag("Set Type Validation Error", path, WireNoType))
    ELSE IF ~IsKnown(in) \/ IsNull(in) THEN NoDiags
    ELSE SetValidateLoop(elemType, in.val, path, 1, NoDiags)

\* xattr.TypeWithValidate.Validate of the element type: Custom reports a
\* value of the wrong wire type and the payload InvalidAtom
ElemValidate(t, v, path) ==
    IF Head(t) = "List" THEN ListValidate(Tail(t), v, path).diags
    ELSE IF Head(t) = "Map" THEN MapValidate(Tail(t), v, path, SomeOrder(v)).diags
    ELSE IF Head(t) = "Set" THEN SetValidate(Tail(t), v, path).diags
    ELSE IF v.type # Missing /\ v.type # <<"String">>
         THEN <<Diag("Custom Type Validation Error", path, WireNoType)>>
    ELSE IF v.k = "val" /\ v.val = InvalidAtom
         THEN <<Diag("Invalid Custom Value", path, v)>>
    ELSE <<>>

-----------------------------------------------------------------------------
(* Type equality and path steps *)

RECURSIVE ElemEqual(_, _)

\* ListType.Equal
ListEqual(elemType, o) ==
    IF elemType = Missing THEN FALSE
    ELSE IF ~TypeIs(o, "List") THEN FALSE
    ELSE ElemEqual(elemType, Tail(o))

\* MapType.Equal
MapEqual(elemType, o) ==
    IF elemType = Missing THEN FALSE
    ELSE IF ~TypeIs(o, "Map") THEN FALSE
    ELSE ElemEqual(elemType, Tail(o))

\* SetType.Equal without the test for a missing element type
SetEqualNoNilGuard(elemType, o) ==
    IF ~TypeIs(o, "Set") THEN FALSE
    ELSE elemType = Tail(o)

\* SetType.Equal
SetEqual(elemType, o) ==
    IF elemType = Missing THEN FALSE
    ELSE IF ~TypeIs(o, "Set") THEN FALSE
    ELSE ElemEqual(elemType, Tail(o))

\* attr.Type.Equal of a present element type t: a primitive equals only its
\* own kind, a collection element type compares as above
ElemEqual(t, o) ==
    IF Head(t) = "List" THEN ListEqual(Tail(t), o)
    ELSE IF Head(t) = "Map" THEN MapEqual(Tail(t), o)
    ELSE IF Head(t) = "Set" THEN SetEqual(Tail(t), o)
    ELSE o = t

\* the (interface{}, error) pair ApplyTerraform5AttributePathStep returns
StepInto(t) == [result |-> t, err |-> NilError]
StepRejected(err) == [result |-> Missing, err |-> err]

\* ListType.ApplyTerraform5AttributePathStep
ListApplyTerraform5AttributePathStep(elemType, step) ==
    IF step[1] # "ElementKeyInt" THEN StepRejected("cannot apply step to ListType")
    ELSE StepInto(elemType)

\* MapType.ApplyTerraform5AttributePathStep accepting any element key step
MapApplyAnyElementKey(elemType, step) ==
    IF step[1] = "AttributeName" THEN StepRejected("cannot apply step to MapType")
    ELSE StepInto(elemType)

\* MapType.ApplyTerraform5AttributePathStep
MapApplyTerraform5AttributePathStep(elemType, step) ==
    IF step[1] # "ElementKeyString" THEN StepRejected("cannot apply step to MapType")
    ELSE StepInto(elemType)

\* SetType.ApplyTerraform5AttributePathStep
SetApplyTerraform5AttributePathStep(elemType, step) ==
    IF step[1] # "ElementKeyValue" THEN StepRejected("cannot apply step to SetType")
    ELSE StepInto(elemType)

-----------------------------------------------------------------------------
(* The inputs of the calls *)

KeyNames == <<"x", "y", "z", "w">>
Keys == {KeyNames[n] : n \in 1..NumKeys}

\* all sequences over S of length at most n
SeqsUpTo(S, n) == UNION {[1..m -> S] : m \in 0..n}

\* all maps from some of the keys to S
MapsOver(S) == UNION {[D -> S] : D \in SUBSET Keys}

\* primitive wire values of type t
PrimWire(t) == {WireUnknown(t), WireNull(t)} \cup {WireVal(t, a) : a \in Atoms}

\* wire lists of strings, used as children of a collection of lists
NestedWire ==
    LET t == <<"List", "String">>
    IN  {WireUnknown(t), WireNull(t), WireVal(t, <<>>),
         WireVal(t, <<WireUnknown(<<"String">>)>>)}
        \cup {WireVal(t, <<WireVal(<<"String">>, a)>>) : a \in Atoms}

\* the element wire types of the wire collections
WireElemTypes == {<<"String">>, <<"Number">>, <<"List", "String">>}

\* the children a wire collection of element type t is built from, and how
\* many of them
Children(t) ==
    IF t = <<"String">> THEN PrimWire(t)
    ELSE IF t = <<"Number">> THEN {WireUnknown(t), WireNull(t), WireVal(t, "a")}
    ELSE NestedWire

LenFor(t) == IF t = <<"List", "String">> THEN MaxLen - 1 ELSE MaxLen

\* wire lists and sets: unknown, null and known
SeqWire(shape) ==
    UNION {{WireUnknown(<<shape>> \o t), WireNull(<<shape>> \o t)}
           \cup {WireVal(<<shape>> \o t, c) : c \in SeqsUpTo(Children(t), LenFor(t))}
           : t \in WireElemTypes}

\* wire maps: unknown, null and known
MapWire ==
    UNION {{WireUnknown(<<"Map">> \o t), WireNull(<<"Map">> \o t)}
           \cup {WireVal(<<"Map">> \o t, c) : c \in MapsOver(Children(t))}
           : t \in WireElemTypes}

\* wire values of another kind than `shape`, and the value without a type
OtherWire(shape) ==
    {WireNoType} \cup PrimWire(<<"String">>)
    \cup UNION {{WireUnknown(<<other, "String">>), WireNull(<<other, "String">>),
                 WireVal(<<other, "String">>,
                         IF other = "Map" THEN [key \in {} |-> WireNoType] ELSE <<>>)}
                : other \in Shapes \ {shape}}

WireInputs(shape) ==
    OtherWire(shape) \cup (IF shape = "Map" THEN MapWire ELSE SeqWire(shape))

\* element types of the receivers of ValueFromTerraform and Validate
ElemTypes == {<<"String">>, <<"Custom">>, <<"Number">>, <<"List", "Custom">>}

\* the paths Validate is called with
Paths == {<<>>, <<AtName("attr")>>}

\* types up to a nesting depth, a missing type included
RECURSIVE TypesUpTo(_)
TypesUpTo(d) ==
    {Missing, <<"String">>, <<"Number">>, <<"Bool">>, <<"Custom">>}
    \cup (IF d = 0 THEN {}
          ELSE {<<shape>> \o t : shape \in Shapes, t \in TypesUpTo(d - 1)})

\* path steps (tftypes.AttributePathStep)
Steps ==
    {<<"AttributeName", "attr">>}
    \cup {<<"ElementKeyString", key>> : key \in Keys}
    \cup {<<"ElementKeyInt", index>> : index \in 0..MaxIndex}
    \cup {<<"ElementKeyValue", value>> : value \in PrimWire(<<"String">>)}

NoRet == [none |-> TRUE]

-----------------------------------------------------------------------------
(* Calls of ValueFromTerraform *)

InitConvert ==
    /\ pc = "call"
    /\ ret = NoRet
    /\ \E shape \in Shapes, elemType \in ElemTypes :
         \E in \in WireInputs(shape) :
           call = [op |-> "ValueFromTerraform", shape |-> shape, elemType |-> elemType,
                   in |-> in]

CallListValueFromTerraform ==
    /\ pc = "call" /\ call.op = "ValueFromTerraform" /\ call.shape = "List"
    /\ ret' = ListValueFromTerraform(call.elemType, call.in)
    /\ pc' = "done"
    /\ UNCHANGED call

CallMapValueFromTerraform ==
    /\ pc = "call" /\ call.op = "ValueFromTerraform" /\ call.shape = "Map"
    /\ \E order \in KeyOrders(call.in) :
         ret' = MapValueFromTerraform(call.elemType, call.in, order)
    /\ pc' = "done"
    /\ UNCHANGED call

CallSetValueFromTerraform ==
    /\ pc = "call" /\ call.op = "ValueFromTerraform" /\ call.shape = "Set"
    /\ ret' = SetValueFromTerraform(call.elemType, call.in)
    /\ pc' = "done"
    /\ UNCHANGED call

NextConvert ==
    \/ CallListValueFromTerraform
    \/ CallMapValueFromTerraform
    \/ CallSetValueFromTerraform

SpecConvert == InitConvert /\ [][NextConvert]_vars

-----------------------------------------------------------------------------
(* Calls of Validate *)

InitValidate ==
    /\ pc = "call"
    /\ ret = NoRet
    /\ \E shape \in Shapes, elemType \in ElemTypes \cup {Missing}, path \in Paths :
         \E in \in WireInputs(shape) :
           call = [op |-> "Validate", shape |-> shape, elemType |-> elemType,
                   in |-> in, path |-> path]

CallListValidate ==
    /\ pc = "call" /\ call.op = "Validate" /\ call.shape = "List"
    /\ ret' = ListValidate(call.elemType, call.in, call.path)
    /\ pc' = "done"
    /\ UNCHANGED call

CallMapValidate ==
    /\ pc = "call" /\ call.op = "Validate" /\ call.shape = "Map"
    /\ \E order \in KeyOrders(call.in) :
         ret' = MapValidate(call.elemType, call.in, call.path, order)
    /\ pc' = "done"
    /\ UNCHANGED call

CallSetValidate ==
    /\ pc = "call" /\ call.op = "Validate" /\ call.shape = "Set"
    /\ ret' = SetValidate(call.elemType, call.in, call.path)
    /\ pc' = "done"
    /\ UNCHANGED call

NextValidate ==
    \/ CallListValidate
    \/ CallMapValidate
    \/ CallSetValidate

SpecValidate == InitValidate /\ [][NextValidate]_vars

-----------------------------------------------------------------------------
(* Calls of Equal *)

InitEqual ==
    /\ pc = "call"
    /\ ret = NoRet
    /\ \E shape \in Shapes, elemType \in TypesUpTo(MaxDepth), o \in TypesUpTo(MaxDepth + 1) :
         call = [op |-> "Equal", shape |-> shape, elemType |-> elemType, o |-> o]

CallListEqual ==
    /\ pc = "call" /\ call.op = "Equal" /\ call.shape = "List"
    /\ ret' = ListEqual(call.elemType, call.o)
    /\ pc' = "done"
    /\ UNCHANGED call

CallMapEqual ==
    /\ pc = "call" /\ call.op = "Equal" /\ call.shape = "Map"
    /\ ret' = MapEqual(call.elemType, call.o)
    /\ pc' = "done"
    /\ UNCHANGED call

CallSetEqual ==
    /\ pc = "call" /\ call.op = "Equal" /\ call.shape = "Set"
    /\ ret' = SetEqual(call.elemType, call.o)
    /\ pc' = "done"
    /\ UNCHANGED call

NextEqual ==
    \/ CallListEqual
    \/ CallMapEqual
    \/ CallSetEqual

SpecEqual == InitEqual /\ [][NextEqual]_vars

-----------------------------------------------------------------------------
(* Calls of ApplyTerraform5AttributePathStep *)

InitStep ==
    /\ pc = "call"
    /\ ret = NoRet
    /\ \E shape \in Shapes, elemType \in TypesUpTo(MaxDepth), step \in Steps :
         call = [op |-> "ApplyTerraform5AttributePathStep", shape |-> shape,
                 elemType |-> elemType, step |-> step]

CallListApplyTerraform5AttributePathStep ==
    /\ pc = "call" /\ call.op = "ApplyTerraform5AttributePathStep" /\ call.shape = "List"
    /\ ret' = ListApplyTerraform5AttributePathStep(call.elemType, call.step)
    /\ pc' = "done"
    /\ UNCHANGED call

CallMapApplyTerraform5AttributePathStep ==
    /\ pc = "call" /\ call.op = "ApplyTerraform5AttributePathStep" /\ call.shape = "Map"
    /\ ret' = MapApplyTerraform5AttributePathStep(call.elemType, call.step)
    /\ pc' = "done"
    /\ UNCHANGED call

CallSetApplyTerraform5AttributePathStep ==
    /\ pc = "call" /\ call.op = "ApplyTerraform5AttributePathStep" /\ call.shape = "Set"
    /\ ret' = SetApplyTerraform5AttributePathStep(call.elemType, call.step)
    /\ pc' = "done"
    /\ UNCHANGED call

NextStep ==
    \/ CallListApplyTerraform5AttributePathStep
    \/ CallMapApplyTerraform5AttributePathStep
    \/ CallSetApplyTerraform5AttributePathStep

SpecStep == InitStep /\ [][NextStep]_vars

-----------------------------------------------------------------------------
(* Properties of ValueFromTerraform *)

Returned(op) == pc = "done" /\ call.op = op

\* the receiver's TerraformType
ReceiverWireType == <<call.shape>> \o ElemTerraformType(call.elemType)

\* the wire value is a known, non-null collection of the receiver's kind
KnownCollection == TypeIs(call.in.type, call.shape) /\ call.in.k = "val"

\* the positions (list, set) or keys (map) of the children of the wire value
ChildIds == IF call.shape = "Map" THEN DOMAIN call.in.val ELSE 1..Len(call.in.val)

\* the number of members of a converted Known collection
NumElems(value) ==
    IF Head(value.t) = "Map" THEN Cardinality(DOMAIN value.elems) ELSE Len(value.elems)

\* the element conversion of child c
ChildConversion(c) == ElemValueFromTerraform(call.elemType, call.in.val[c])

\* C1 as stated: on a wire value of the receiver's wire type, a value that is
\* not fully known converts to Unknown, a null value to Null, and every other
\* value to a Known value with as many elements as the wire value has children
\* (stated for the calls in which every child converts).
C1_NotFullyKnownGivesUnknown ==
    (Returned("ValueFromTerraform") /\ call.in.type = ReceiverWireType
       /\ (call.in.k = "val" => \A c \in ChildIds : ChildConversion(c).err = NilError)) =>
        /\ ret.err = NilError
        /\ IF ~IsFullyKnown(call.in) THEN ret.value.state = "Unknown"
           ELSE IF IsNull(call.in) THEN ret.value.state = "Null"
           ELSE ret.value.state = "Known" /\ NumElems(ret.value) = Cardinality(ChildIds)

\* C1 amended: on a wire value of the receiver's wire type, a value that is
\* itself unknown converts to Unknown and a null value to Null; every other
\* value, a known collection holding unknown members included, converts to a
\* Known value with as many elements as the wire value has children, unless
\* the conversion of a child fails, and then an error is returned instead.
C1_DeterminacyMapping ==
    (Returned("ValueFromTerraform") /\ call.in.type = ReceiverWireType) =>
        IF ~IsKnown(call.in) THEN ret.err = NilError /\ ret.value.state = "Unknown"
        ELSE IF IsNull(call.in) THEN ret.err = NilError /\ ret.value.state = "Null"
        ELSE IF \A c \in ChildIds : ChildConversion(c).err = NilError
             THEN /\ ret.err = NilError
                  /\ ret.value.state = "Known"
                  /\ NumElems(ret.value) = Cardinality(ChildIds)
        ELSE ret.err # NilError

\* a known list with a known and an unknown member has been converted
C1_Witness ==
    /\ Returned("ValueFromTerraform") /\ call.shape = "List"
    /\ call.in.type = ReceiverWireType /\ call.in.k = "val"
    /\ Len(call.in.val) = 2
    /\ IsKnown(call.in.val[1]) /\ ~IsKnown(call.in.val[2])
    /\ ret.value.state = "Known" /\ Len(ret.value.elems) = 2

\* C7: ValueFromTerraform returns a value or an error, never both and never
\* neither; a present wire type other than the receiver's gives an error and
\* no value whatever the determinacy; a failing child conversion gives that
\* child's error and no value; an absent wire type gives Null and no error.
C7_ValueOrError ==
    Returned("ValueFromTerraform") =>
        /\ (ret.value = NilValue) # (ret.err = NilError)
        /\ (call.in.type # Missing /\ call.in.type # ReceiverWireType) =>
               ret.value = NilValue /\ ret.err # NilError
        /\ (call.in.type = ReceiverWireType /\ call.in.k = "val"
              /\ \E c \in ChildIds : ChildConversion(c).err # NilError) =>
               /\ ret.value = NilValue
               /\ \E c \in ChildIds : ret.err = ChildConversion(c).err /\ ret.err # NilError
        /\ call.in.type = Missing => ret.err = NilError /\ ret.value.state = "Null"

\* a map whose first child converts and whose second does not has been
\* converted
C7_Witness ==
    /\ Returned("ValueFromTerraform") /\ call.shape = "Map"
    /\ call.in.type = ReceiverWireType /\ call.in.k = "val"
    /\ \E c, d \in ChildIds : ChildConversion(c).err = NilError /\ ChildConversion(d).err # NilError
    /\ ret.err = "unconvertible" /\ ret.value = NilValue

\* C9: the i-th element of a converted list is the conversion of the i-th
\* wire child; a converted map has exactly the wire map's keys, each mapped
\* to the conversion of that key's child, in whatever order the keys were
\* visited.
C9_MembersKeepTheirAddress ==
    (Returned("ValueFromTerraform") /\ call.shape \in {"List", "Map"}
       /\ call.in.type = ReceiverWireType /\ call.in.k = "val" /\ ret.err = NilError) =>
        /\ ret.value.state = "Known"
        /\ DOMAIN ret.value.elems = ChildIds
        /\ \A c \in ChildIds : ret.value.elems[c] = ChildConversion(c).value

\* a list of three different atoms and a map of two keys have been converted
C9_Witness ==
    /\ Returned("ValueFromTerraform") /\ ret.err = NilError
    /\ call.in.type = ReceiverWireType /\ call.in.k = "val"
    /\ \/ /\ call.shape = "List" /\ call.elemType = <<"String">>
          /\ Len(call.in.val) = 3
          /\ ret.value.elems = <<AttrPrimitive(<<"String">>, "a"),
                                 AttrPrimitive(<<"String">>, "b"),
                                 AttrPrimitive(<<"String">>, "c")>>
       \/ /\ call.shape = "Map" /\ call.elemType = <<"String">>
          /\ Cardinality(ChildIds) = 2
          /\ \E c, d \in ChildIds : ret.value.elems[c].v = "a" /\ ret.value.elems[d].v = "b"

-----------------------------------------------------------------------------
(* Properties of Validate *)

\* the children of the wire value that are fully known
FullyKnownChildren == {c \in ChildIds : IsFullyKnown(call.in.val[c])}

\* the positions of the diagnostics with a summary
DiagsNamed(summary) == {n \in 1..Len(ret.diags) : ret.diags[n].summary = summary}

\* the pairs of positions of a set the duplicate check is about
EqualPairs ==
    {p \in ChildIds \X ChildIds :
        /\ p[1] < p[2]
        /\ IsFullyKnown(call.in.val[p[1]]) /\ IsFullyKnown(call.in.val[p[2]])
        /\ WireEqual(call.in.val[p[1]], call.in.val[p[2]])}

\* the path the element validation of child c is to be called with
ChildPath(c) ==
    Append(call.path,
           IF call.shape = "List" THEN AtListIndex(c - 1)
           ELSE IF call.shape = "Map" THEN AtMapKey(c)
           ELSE AtSetValue(ChildConversion(c).value))

\* the positions in the call log of the element validations of child c
CallsOf(c) == {n \in 1..Len(ret.calls) : ret.calls[n].child = c}

\* C2: SetType.Validate on a known, non-null set emits one "Duplicate Set
\* Element" diagnostic per pair of positions i < j whose children are both
\* fully known and equal, and none for any other pair.
C2_OneDuplicatePerEqualPair ==
    (Returned("Validate") /\ call.shape = "Set" /\ KnownCollection) =>
        /\ Cardinality(DiagsNamed("Duplicate Set Element")) = Cardinality(EqualPairs)
        /\ \A n \in DiagsNamed("Duplicate Set Element") :
              \E p \in EqualPairs : WireEqual(ret.diags[n].detail, call.in.val[p[2]])

\* C3: every duplicate-element diagnostic of SetType.Validate is addressed at
\* the path passed to Validate extended by a set-value step, not at the set's
\* own path.
C3_DuplicateAddressedAtElement ==
    (Returned("Validate") /\ call.shape = "Set") =>
        \A n \in DiagsNamed("Duplicate Set Element") :
            /\ ret.diags[n].path # call.path
            /\ Len(ret.diags[n].path) = Len(call.path) + 1
            /\ SubSeq(ret.diags[n].path, 1, Len(call.path)) = call.path
            /\ ret.diags[n].path[Len(call.path) + 1][1] = "SetValue"

\* C4 as stated: Validate returns no diagnostics, and validates no element,
\* whenever the wire value has no wire type, or is a value of the receiver's
\* kind that is not fully known or is null.
C4_NotFullyKnownOrNullIsExempt ==
    (Returned("Validate")
       /\ \/ call.in.type = Missing
          \/ TypeIs(call.in.type, call.shape) /\ (~IsFullyKnown(call.in) \/ IsNull(call.in))) =>
        ret.diags = <<>> /\ ret.calls = <<>>

\* C4 amended: Validate returns no diagnostics, and validates no element,
\* whenever the wire value has no wire type, or is of the receiver's kind
\* and is itself unknown or null.
C4_UnknownOrNullIsExempt ==
    (Returned("Validate")
       /\ \/ call.in.type = Missing
          \/ TypeIs(call.in.type, call.shape) /\ (~IsKnown(call.in) \/ IsNull(call.in))) =>
        ret.diags = <<>> /\ ret.calls = <<>>

\* an unknown, a null and a typeless value have been validated against a
\* validating element type
C4_Witness ==
    /\ Returned("Validate") /\ IsValidatable(call.elemType)
    /\ \/ call.in.type = Missing
       \/ TypeIs(call.in.type, call.shape) /\ ~IsKnown(call.in)
       \/ TypeIs(call.in.type, call.shape) /\ IsNull(call.in)
    /\ ret.diags = <<>>

\* the handling of child c itself fails: its conversion for the set-value
\* path step returns an error
HandlingFails(c) ==
    /\ call.shape = "Set" /\ IsValidatable(call.elemType)
    /\ ChildConversion(c).err # NilError

\* C5: once the collection is decoded, every fully-known child is processed
\* whatever happened to the others: each child whose own handling does not
\* fail is validated (when the element type validates) and, in a set,
\* checked against the later children for duplicates.
C5_EveryChildIsProcessed ==
    (Returned("Validate") /\ KnownCollection) =>
        \A c \in FullyKnownChildren :
            ~HandlingFails(c) =>
                /\ IsValidatable(call.elemType) => CallsOf(c) # {}
                /\ call.shape = "Set" =>
                       \A d \in ChildIds :
                           (c < d /\ WireEqual(call.in.val[d], call.in.val[c])) =>
                               \E n \in DiagsNamed("Duplicate Set Element") :
                                   WireEqual(ret.diags[n].detail, call.in.val[d])

\* C6: with a validating element type, Validate on a known non-null
\* collection calls the element validation once for every fully-known child
\* and for no other child, with the collection path extended by the child's
\* index, key or converted value, and returns the diagnostics it gives; with
\* any other element type no element validation runs and none is reported.
\* (A set child that has no converted value has no address to be validated
\* at; the property is stated for the children that have one.)
C6_ElementValidationPerChild ==
    (Returned("Validate") /\ KnownCollection) =>
        IF IsValidatable(call.elemType)
        THEN /\ \A c \in FullyKnownChildren :
                   ~HandlingFails(c) => Cardinality(CallsOf(c)) = 1
             /\ \A n \in 1..Len(ret.calls) :
                   /\ ret.calls[n].child \in FullyKnownChildren
                   /\ ret.calls[n].path = ChildPath(ret.calls[n].child)
             /\ \A c \in FullyKnownChildren : ~HandlingFails(c) =>
                   LET got == ElemValidate(call.elemType, call.in.val[c], ChildPath(c))
                   IN  \A m \in 1..Len(got) : \E n \in 1..Len(ret.diags) : ret.diags[n] = got[m]
        ELSE /\ ret.calls = <<>>
             /\ \A n \in 1..Len(ret.diags) : ret.diags[n].summary = "Duplicate Set Element"

-----------------------------------------------------------------------------
(* Properties of Equal and ApplyTerraform5AttributePathStep *)

\* Shape{elemType}.Equal(o) as the code computes it
ShapeEqual(shape, elemType, o) ==
    IF shape = "List" THEN ListEqual(elemType, o)
    ELSE IF shape = "Map" THEN MapEqual(elemType, o)
    ELSE SetEqual(elemType, o)

\* C8: Shape{E1}.Equal(Shape{E2}) holds iff E1.Equal(E2); Equal is false
\* against another shape and against a type that is no collection; a type
\* whose element type is missing equals nothing, itself included; on types
\* with a present element type Equal is reflexive and symmetric wherever the
\* element-type equality is.
C8_EqualIsElementTypeEqual ==
    Returned("Equal") =>
        /\ (call.elemType # Missing /\ TypeIs(call.o, call.shape)) =>
               ret = ElemEqual(call.elemType, Tail(call.o))
        /\ ~TypeIs(call.o, call.shape) => ret = FALSE
        /\ call.elemType = Missing => ret = FALSE
        /\ (call.elemType # Missing /\ call.o = <<call.shape>> \o call.elemType) =>
               (ElemEqual(call.elemType, call.elemType) => ret = TRUE)
        /\ (call.elemType # Missing /\ TypeIs(call.o, call.shape) /\ Tail(call.o) # Missing) =>
               ((ElemEqual(call.elemType, Tail(call.o)) = ElemEqual(Tail(call.o), call.elemType))
                   => ret = ShapeEqual(call.shape, Tail(call.o), <<call.shape>> \o call.elemType))

\* a collection of lists has been compared with itself, and a collection
\* without element type with itself
C8_Witness ==
    /\ Returned("Equal")
    /\ \/ call.elemType = <<"List", "String">> /\ call.o = <<call.shape, "List", "String">>
             /\ ret = TRUE
       \/ call.elemType = Missing /\ call.o = <<call.shape>> /\ ret = FALSE

\* the kind of step each shape accepts
AcceptedStep ==
    IF call.shape = "List" THEN "ElementKeyInt"
    ELSE IF call.shape = "Map" THEN "ElementKeyString"
    ELSE "ElementKeyValue"

\* C10: ApplyTerraform5AttributePathStep accepts the one kind of step of the
\* receiver's shape, for any index, key or value, and returns the element
\* type without error; on every other kind of step it returns an error and
\* no type.
C10_OneStepKindPerShape ==
    Returned("ApplyTerraform5AttributePathStep") =>
        IF call.step[1] = AcceptedStep
        THEN ret.err = NilError /\ ret.result = call.elemType
        ELSE ret.err # NilError /\ ret.result = Missing

\* a map has been stepped into by key and has rejected an index
C10_Witness ==
    /\ Returned("ApplyTerraform5AttributePathStep") /\ call.shape = "Map"
    /\ call.elemType = <<"String">>
    /\ \/ call.step[1] = "ElementKeyString" /\ ret.result = <<"String">>
       \/ call.step[1] = "ElementKeyInt" /\ ret.err # NilError

-----------------------------------------------------------------------------
(* fromproto5.PlanResourceChangeRequest.  A pointer argument is a record   *)
(* with a field nil; a protocol DynamicValue that is present carries the   *)
(* number of diagnostics its conversion reports (faults).                  *)

\* most diagnostics one conversion reports
MaxFaults == 2

NilPointer == [nil |-> TRUE]

\* *tfprotov5.DynamicValue
DynamicValues == {NilPointer} \cup {[nil |-> FALSE, faults |-> f] : f \in 0..MaxFaults}

\* *tfsdk.Schema
Schemas(name) == {NilPointer, [nil |-> FALSE, name |-> name]}

\* *tfprotov5.PlanResourceChangeRequest
Proto5Requests ==
    {NilPointer}
    \cup [nil : {FALSE}, Config : DynamicValues, PriorState : DynamicValues,
          ProposedNewState : DynamicValues, ProviderMeta : DynamicValues,
          PriorPrivate : {"private"}]

\* an error diagnostic without a path (diags.AddError)
ErrorDiag(summary, n) == [severity |-> "error", summary |-> summary, n |-> n]

\* the diagnostics of the conversion of a present DynamicValue
FaultDiags(summary, dv) == [n \in 1..dv.faults |-> ErrorDiag(summary, n)]

\* the (data, diagnostics) pair a conversion returns
Data(kind, dv, schema) == [nil |-> FALSE, kind |-> kind, raw |-> dv, schema |-> schema]
Conversion(kind, summary, dv, schema) ==
    IF dv.nil THEN [value |-> NilPointer, diags |-> <<>>]
    ELSE IF dv.faults > 0 THEN [value |-> NilPointer, diags |-> FaultDiags(summary, dv)]
    ELSE [value |-> Data(kind, dv, schema), diags |-> <<>>]

\* fromproto5.Config
Config(dv, schema) == Conversion("Config", "Unable to Convert Configuration", dv, schema)

\* fromproto5.State
State(dv, schema) == Conversion("State", "Unable to Convert State", dv, schema)

\* fromproto5.Plan
Plan(dv, schema) == Conversion("Plan", "Unable to Convert Plan", dv, schema)

\* fromproto5.ProviderMeta: nothing without a provider meta schema, an empty
\* value of the schema without a DynamicValue
ProviderMeta(dv, schema) ==
    IF schema.nil THEN [value |-> NilPointer, diags |-> <<>>]
    ELSE IF dv.nil THEN [value |-> Data("ProviderMeta", dv, schema), diags |-> <<>>]
    ELSE Conversion("ProviderMeta", "Unable to Convert Provider Meta Configuration", dv, schema)

\* what a call did: the request and the diagnostics it returns and, in
\* order, the conversions it ran
PlanResult(fw, diags, ran) == [fw |-> fw, diags |-> diags, ran |-> ran]

\* PlanResourceChangeRequest giving up at the first conversion that reports
\* diagnostics
PlanResourceChangeRequestStopOnError(proto5, resourceType, resourceSchema, providerMetaSchema) ==
    IF proto5.nil THEN PlanResult(NilPointer, <<>>, <<>>)
    ELSE IF resourceSchema.nil
         THEN PlanResult(NilPointer, <<ErrorDiag("Missing Resource Schema", 1)>>, <<>>)
    ELSE LET fw0 == [nil |-> FALSE, PriorPrivate |-> proto5.PriorPrivate,
                     ResourceSchema |-> resourceSchema, ResourceType |-> resourceType,
                     Config |-> NilPointer, PriorState |-> NilPointer,
                     ProposedNewState |-> NilPointer, ProviderMeta |-> NilPointer]
             config == Config(proto5.Config, resourceSchema)
             fw1 == [fw0 EXCEPT !.Config = config.value]
             priorState == State(proto5.PriorState, resourceSchema)
             diags2 == config.diags \o priorState.diags
             fw2 == [fw1 EXCEPT !.PriorState = priorState.value]
             proposedNewState == Plan(proto5.ProposedNewState, resourceSchema)
             diags3 == diags2 \o proposedNewState.diags
             fw3 == [fw2 EXCEPT !.ProposedNewState = proposedNewState.value]
             providerMeta == ProviderMeta(proto5.ProviderMeta, providerMetaSchema)
             diags4 == diags3 \o providerMeta.diags
             fw4 == [fw3 EXCEPT !.ProviderMeta = providerMeta.value]
         IN  IF config.diags # <<>> THEN PlanResult(fw1, config.diags, <<"Config">>)
             ELSE IF diags2 # <<>> THEN PlanResult(fw2, diags2, <<"Config", "State">>)
             ELSE IF diags3 # <<>> THEN PlanResult(fw3, diags3, <<"Config", "State", "Plan">>)
             ELSE PlanResult(fw4, diags4, <<"Config", "State", "Plan", "ProviderMeta">>)

\* fromproto5.PlanResourceChangeRequest
PlanResourceChangeRequest(proto5, resourceType, resourceSchema, providerMetaSchema) ==
    IF proto5.nil THEN PlanResult(NilPointer, <<>>, <<>>)
    ELSE IF resourceSchema.nil
         THEN PlanResult(NilPointer, <<ErrorDiag("Missing Resource Schema", 1)>>, <<>>)
    ELSE LET fw0 == [nil |-> FALSE, PriorPrivate |-> proto5.PriorPrivate,
                     ResourceSchema |-> resourceSchema, ResourceType |-> resourceType,
                     Config |-> NilPointer, PriorState |-> NilPointer,
                     ProposedNewState |-> NilPointer, ProviderMeta |-> NilPointer]
             config == Config(proto5.Config, resourceSchema)
             diags1 == config.diags
             fw1 == [fw0 EXCEPT !.Config = config.value]
             priorState == State(proto5.PriorState, resourceSchema)
             diags2 == diags1 \o priorState.diags
             fw2 == [fw1 EXCEPT !.PriorState = priorState.value]
             proposedNewState == Plan(proto5.ProposedNewState, resourceSchema)
             diags3 == diags2 \o proposedNewState.diags
             fw3 == [fw2 EXCEPT !.ProposedNewState = proposedNewState.value]
             providerMeta == ProviderMeta(proto5.ProviderMeta, providerMetaSchema)
             diags4 == diags3 \o providerMeta.diags
             fw4 == [fw3 EXCEPT !.ProviderMeta = providerMeta.value]
         IN  PlanResult(fw4, diags4, <<"Config", "State", "Plan", "ProviderMeta">>)

InitPlan ==
    /\ pc = "call"
    /\ ret = NoRet
    /\ \E proto5 \in Proto5Requests, resourceSchema \in Schemas("resource"),
          providerMetaSchema \in Schemas("provider_meta") :
         call = [op |-> "PlanResourceChangeRequest", proto5 |-> proto5,
                 resourceType |-> "test_resource", resourceSchema |-> resourceSchema,
                 providerMetaSchema |-> providerMetaSchema]

CallPlanResourceChangeRequest ==
    /\ pc = "call" /\ call.op = "PlanResourceChangeRequest"
    /\ ret' = PlanResourceChangeRequest(call.proto5, call.resourceType,
                                        call.resourceSchema, call.providerMetaSchema)
    /\ pc' = "done"
    /\ UNCHANGED call

NextPlan == CallPlanResourceChangeRequest

SpecPlan == InitPlan /\ [][NextPlan]_vars

\* C11: a nil protocol request gives a nil result and no diagnostics; a
\* request with a nil resource schema gives a nil result and the single
\* error "Missing Resource Schema", and runs no conversion; otherwise the
\* result is not nil, the conversions Config, State (PriorState), Plan
\* (ProposedNewState) and ProviderMeta all run, in that order, whatever the
\* earlier ones reported, and the diagnostics returned are theirs, in that
\* order.
C11_AllConversionsRunInOrder ==
    Returned("PlanResourceChangeRequest") =>
        IF call.proto5.nil
        THEN ret.fw.nil /\ ret.diags = <<>> /\ ret.ran = <<>>
        ELSE IF call.resourceSchema.nil
        THEN /\ ret.fw.nil
             /\ ret.diags = <<ErrorDiag("Missing Resource Schema", 1)>>
             /\ ret.ran = <<>>
        ELSE /\ ~ret.fw.nil
             /\ ret.ran = <<"Config", "State", "Plan", "ProviderMeta">>
             /\ ret.diags = Config(call.proto5.Config, call.resourceSchema).diags
                            \o State(call.proto5.PriorState, call.resourceSchema).diags
                            \o Plan(call.proto5.ProposedNewState, call.resourceSchema).diags
                            \o ProviderMeta(call.proto5.ProviderMeta, call.providerMetaSchema).diags
             /\ ret.fw.Config = Config(call.proto5.Config, call.resourceSchema).value
             /\ ret.fw.PriorState = State(call.proto5.PriorState, call.resourceSchema).value
             /\ ret.fw.ProposedNewState
                    = Plan(call.proto5.ProposedNewState, call.resourceSchema).value
             /\ ret.fw.ProviderMeta
                    = ProviderMeta(call.proto5.ProviderMeta, call.providerMetaSchema).value

\* a request whose configuration and whose provider meta both fail to
\* convert has been converted
C11_Witness ==
    /\ Returned("PlanResourceChangeRequest")
    /\ ~call.proto5.nil /\ ~call.resourceSchema.nil /\ ~call.providerMetaSchema.nil
    /\ ~call.proto5.Config.nil /\ call.proto5.Config.faults = 1
    /\ ~call.proto5.PriorState.nil /\ call.proto5.PriorState.faults = 0
    /\ ~call.proto5.ProviderMeta.nil /\ call.proto5.ProviderMeta.faults = 1
    /\ ~ret.fw.nil /\ Len(ret.ran) = 4
    /\ ret.diags[1].summary = "Unable to Convert Configuration"
    /\ ret.diags[Len(ret.diags)].summary = "Unable to Convert Provider Meta Configuration"

=============================================================================
